---- MODULE Spec2Model ----
(***************************************************************************)
(* The research pipeline of agents.py served by server.py.                 *)
(*                                                                         *)
(* A host sends crew_research requests to the tool server.  The event      *)
(* loop runs one coroutine per request; the coroutine calls run_research,  *)
(* which builds a crew (create_research_crew), runs its tasks in the order *)
(* of the crew's task list (crew.kickoff, Process.sequential) and returns  *)
(* the raw text of the final output, or an error string when an exception  *)
(* that `except Exception` catches reaches it.  The search task calls      *)
(* LinkUpSearchTool._run, which has its own `except Exception`.            *)
(*                                                                         *)
(* The environment (the search provider, the model endpoint, signals)      *)
(* chooses what each external call returns or raises.                      *)
(***************************************************************************)
EXTENDS Naturals, Sequences, FiniteSets, TLC

\* ------------------------------------------------------------- bounds
MaxCalls == 2        \* requests the host sends
MaxDirect == 2       \* direct invocations of the tool in SpecTool

\* ------------------------------------------------------------- inputs
Queries == {"What is quantum entanglement?", "deep searchResults"}

\* Values a caller of the tool can pass; "bogus" is outside the documented sets.
Depths == {"standard", "deep", "bogus"}
OutputTypes == {"structured", "searchResults", "bogus"}

\* Python exception classes that derive from Exception, and those that derive
\* from BaseException only.
ExceptionClasses == {"ValueError", "ConnectionError"}
BaseOnlyClasses == {"KeyboardInterrupt"}

NoExc == [cls |-> "none", msg |-> ""]
MissingKey == [cls |-> "ValueError", msg |-> "The Linkup API key was not provided"]
Refused == [cls |-> "ConnectionError", msg |-> "connection refused"]
Interrupt == [cls |-> "KeyboardInterrupt", msg |-> ""]
Invalid == [cls |-> "ValueError", msg |-> "validation error"]

\* What the blocking external calls (provider search, model endpoint), the
\* construction of the search client and the construction of the crew can raise.
Raisable == {Refused, Interrupt}
CtorRaisable == {MissingKey}
BuildRaisable == {Invalid}

\* Text the language model can generate besides repeating its input.
GeneratedTexts == {"## Answer\nsee https://example.org [1]"}

\* ------------------------------------------------------------- strings
StartsWith(s, p) == Len(s) >= Len(p) /\ SubSeq(s, 1, Len(p)) = p

Contains(s, p) ==
    \E k \in 0..Len(s) : k + Len(p) <= Len(s) /\ SubSeq(s, k + 1, k + Len(p)) = p

SearchErrorPrefix == "Error during LinkUp search: "
CrewErrorPrefix == "Error during crew execution: "

\* str(e)
StrExc(e) == e.msg

\* A handler written for one class of error only.
ExceptValueErrorOnly(e) == e.cls = "ValueError"

\* `except Exception`: the handler takes instances of Exception only.
ExceptException(e) == e.cls \in ExceptionClasses

\* ------------------------------------------------------------- search tool
NoRequest == [query |-> "", depth |-> "", output_type |-> ""]

\* What the environment does to one invocation of the tool: what building the
\* client (os.getenv + LinkupClient) raises and what the search call raises.
ToolOutcomes ==
    {[ctor |-> NoExc, search |-> NoExc]}
        \cup {[ctor |-> e, search |-> NoExc] : e \in CtorRaisable}
        \cup {[ctor |-> NoExc, search |-> e] : e \in Raisable}

\* str(result): the textual representation of the provider's response to a request.
StrResult(req) ==
    "LinkupResults(" \o req.query \o "|" \o req.depth \o "|" \o req.output_type \o ")"

\* LinkUpSearchTool._run without its try/except.
LinkUpSearchTool_run_uncaught(query, depth, output_type, env) ==
    LET raised == IF env.ctor # NoExc THEN env.ctor ELSE env.search
        args == [query |-> query, depth |-> depth, output_type |-> output_type]
        sent == IF env.ctor # NoExc THEN <<>> ELSE <<args>>
    IN  IF raised = NoExc
        THEN [args |-> args, sent |-> sent, returned |-> TRUE,
              value |-> StrResult(args), exc |-> raised]
        ELSE [args |-> args, sent |-> sent, returned |-> FALSE,
              value |-> "", exc |-> raised]

\* LinkUpSearchTool._run repeating a search that raised.
LinkUpSearchTool_run_retry(query, depth, output_type, env) ==
    LET raised == IF env.ctor # NoExc THEN env.ctor ELSE env.search
        args == [query |-> query, depth |-> depth, output_type |-> output_type]
        sent == IF env.ctor # NoExc THEN <<>>
                ELSE IF env.search # NoExc THEN <<args, args>> ELSE <<args>>
    IN  IF raised = NoExc
        THEN [args |-> args, sent |-> sent, returned |-> TRUE,
              value |-> StrResult(args), exc |-> raised]
        ELSE IF ExceptException(raised)
        THEN [args |-> args, sent |-> sent, returned |-> TRUE,
              value |-> SearchErrorPrefix \o StrExc(raised), exc |-> raised]
        ELSE [args |-> args, sent |-> sent, returned |-> FALSE,
              value |-> "", exc |-> raised]

\* LinkUpSearchTool._run.  `sent` holds the requests that reached the provider,
\* `returned` says whether the method returned (value) or let `exc` escape.
LinkUpSearchTool_run(query, depth, output_type, env) ==
    LET raised == IF env.ctor # NoExc THEN env.ctor ELSE env.search
        sent == IF env.ctor # NoExc
                THEN <<>>
                ELSE <<[query |-> query, depth |-> depth, output_type |-> output_type]>>
        args == [query |-> query, depth |-> depth, output_type |-> output_type]
    IN  IF raised = NoExc
        THEN [args |-> args, sent |-> sent, returned |-> TRUE,
              value |-> StrResult(sent[1]), exc |-> raised]
        ELSE IF ExceptException(raised)
        THEN [args |-> args, sent |-> sent, returned |-> TRUE,
              value |-> SearchErrorPrefix \o StrExc(raised), exc |-> raised]
        ELSE [args |-> args, sent |-> sent, returned |-> FALSE,
              value |-> "", exc |-> raised]

\* ------------------------------------------------------------- crew builder
\* One client created once and handed to every crew.
get_llm_client_shared(id) ==
    [id |-> 0, model |-> "ollama/tinyllama:1.1b-chat",
     base_url |-> "http://localhost:11434", api_key |-> "ollama"]

get_llm_client(id) ==
    [id |-> id, model |-> "ollama/tinyllama:1.1b-chat",
     base_url |-> "http://localhost:11434", api_key |-> "ollama"]

NewLinkUpSearchTool(id) == [id |-> id, name |-> "LinkUp Search"]

NoToolChoice == [name |-> "", arguments |-> NoRequest]

\* The search depth read off the query text.
SearchToolChoiceFromQuery(query) ==
    [name |-> "LinkUp Search",
     arguments |-> [query |-> query,
                    depth |-> IF Contains(query, "deep") THEN "deep" ELSE "standard",
                    output_type |-> "structured"]]

\* The tool invocation the search task is given.
SearchToolChoice(query) ==
    [name |-> "LinkUp Search",
     arguments |-> [query |-> query, depth |-> "standard", output_type |-> "structured"]]

\* The analysis task listed before the search task.
CrewTaskOrderSwapped(search_task, analysis_task, writing_task) ==
    <<analysis_task, search_task, writing_task>>

\* The order of the crew's task list.
CrewTaskOrder(search_task, analysis_task, writing_task) ==
    <<search_task, analysis_task, writing_task>>

\* Objects a crew consists of; `base` is the first free object identity.
ObjectsPerCrew == 9

create_research_crew(query, base) ==
    LET linkup_tool == NewLinkUpSearchTool(base)
        client == get_llm_client(base + 1)
        web_searcher ==
            [id |-> base + 2, role |-> "Web Searcher", allow_delegation |-> TRUE,
             tools |-> {linkup_tool.id}, llm |-> client.id]
        research_analyst ==
            [id |-> base + 3, role |-> "Research Analyst", allow_delegation |-> TRUE,
             tools |-> {}, llm |-> client.id]
        technical_writer ==
            [id |-> base + 4, role |-> "Technical Writer", allow_delegation |-> FALSE,
             tools |-> {}, llm |-> client.id]
        search_task ==
            [id |-> base + 5, name |-> "search", agent |-> web_searcher.id,
             tools |-> {linkup_tool.id}, tool_choice |-> SearchToolChoice(query),
             context |-> <<>>]
        analysis_task ==
            [id |-> base + 6, name |-> "analysis", agent |-> research_analyst.id,
             tools |-> {}, tool_choice |-> NoToolChoice,
             context |-> <<search_task.id>>]
        writing_task ==
            [id |-> base + 7, name |-> "writing", agent |-> technical_writer.id,
             tools |-> {}, tool_choice |-> NoToolChoice,
             context |-> <<analysis_task.id>>]
    IN  [id |-> base + 8, tool |-> linkup_tool, client |-> client,
         agents |-> <<web_searcher, research_analyst, technical_writer>>,
         tasks |-> CrewTaskOrder(search_task, analysis_task, writing_task),
         process |-> "sequential"]

NoCrew ==
    [id |-> 0, tool |-> NewLinkUpSearchTool(0), client |-> get_llm_client(0),
     agents |-> <<>>, tasks |-> <<>>, process |-> "none"]

\* Identities of every object reachable from a crew.
ObjectIds(crew) ==
    {crew.id, crew.tool.id, crew.client.id}
        \cup {crew.agents[k].id : k \in DOMAIN crew.agents}
        \cup {crew.agents[k].llm : k \in DOMAIN crew.agents}
        \cup UNION {crew.agents[k].tools : k \in DOMAIN crew.agents}
        \cup {crew.tasks[k].id : k \in DOMAIN crew.tasks}
        \cup {crew.tasks[k].agent : k \in DOMAIN crew.tasks}
        \cup UNION {crew.tasks[k].tools : k \in DOMAIN crew.tasks}
        \cup UNION {{crew.tasks[k].context[m] : m \in DOMAIN crew.tasks[k].context} :
                        k \in DOMAIN crew.tasks}


\* ------------------------------------------------------------- state
\* server     "running" until an exception escapes the request handler
\* calls      one record per crew_research request, in arrival order; `objects`
\*            keeps the identities of the objects the call created
\* nextId     the next unused object identity
\* searchLog  one entry per invocation of LinkUpSearchTool._run
\* stageLog   start / end / failed events of the tasks, in the order they happen
VARIABLES server, calls, nextId, searchLog, stageLog

vars == <<server, calls, nextId, searchLog, stageLog>>

NewCall(q) ==
    [query |-> q, pc |-> "pending", crew |-> NoCrew, idx |-> 0, toolResult |-> "",
     outputs |-> <<>>, result |-> "", exc |-> NoExc, objects |-> {}]

\* The locals of run_research and of crew.kickoff are dropped when the call ends.
Release(c) ==
    [c EXCEPT !.crew = NoCrew, !.idx = 0, !.toolResult = "", !.outputs = <<>>]

ActivePc == {"build", "tool", "llm", "extract"}

Init ==
    /\ server = "running"
    /\ calls = <<>>
    /\ nextId = 1
    /\ searchLog = <<>>
    /\ stageLog = <<>>

\* ------------------------------------------------------------- run_research
\* The exception swallowed and the crew carrying on with the next task.
OnExceptionSkipTask(c, e) ==
    IF c.pc \in {"tool", "llm"} /\ c.idx < Len(c.crew.tasks)
    THEN [c EXCEPT !.outputs = Append(@, ""), !.idx = c.idx + 1, !.pc = "llm"]
    ELSE IF ExceptException(e)
    THEN [Release(c) EXCEPT !.pc = "done", !.exc = e,
                            !.result = CrewErrorPrefix \o StrExc(e)]
    ELSE [Release(c) EXCEPT !.pc = "raised", !.exc = e]

\* The except clause of run_research: an exception it catches becomes the
\* returned error string, any other leaves the call.
OnException(c, e) ==
    IF ExceptException(e)
    THEN [Release(c) EXCEPT !.pc = "done", !.exc = e,
                            !.result = CrewErrorPrefix \o StrExc(e)]
    ELSE [Release(c) EXCEPT !.pc = "raised", !.exc = e]

\* The raw text of the first task's output.
FirstTaskRaw(c) == c.outputs[1]

\* result.raw: the raw text of the output of the last task of the crew.
CrewOutputRaw(c) == c.outputs[Len(c.outputs)]

\* ------------------------------------------------------------- crew.kickoff
\* Whether a task begins with the tool invocation it was given.
PhaseOf(task) == IF task.tool_choice.name # "" THEN "tool" ELSE "llm"

\* Process.sequential: the task after the one at position idx.
NextTaskIndex(idx) == idx + 1

TaskIndex(crew, id) == CHOOSE k \in DOMAIN crew.tasks : crew.tasks[k].id = id

\* The output of the upstream task a task names as its context ("" when the
\* task names none or the upstream task has produced nothing).
ContextOf(c, task) ==
    IF task.context = <<>>
    THEN ""
    ELSE LET k == TaskIndex(c.crew, task.context[1])
         IN  IF k <= Len(c.outputs) THEN c.outputs[k] ELSE ""

\* What the agent's model is given for a task.
AgentInput(c, task) ==
    IF PhaseOf(task) = "tool" THEN c.toolResult ELSE ContextOf(c, task)

\* What the model endpoint does to one task: it raises, or it answers with a
\* generated text or with its input repeated.
ModelOutcomes(input) ==
    {[exc |-> NoExc, text |-> t] : t \in GeneratedTexts \cup ({input} \ {""})}
        \cup {[exc |-> e, text |-> ""] : e \in Raisable}

Event(i, task, ev) == [call |-> i, task |-> task.name, ev |-> ev]

\* ------------------------------------------------------------- event loop
\* Whether the coroutine of a call at position pc has yielded the event loop.
\* crew_research contains no await: it never yields before it returns.
SuspendedInWorkerThread(pc) == pc \in {"tool", "llm"}
Suspended(pc) == FALSE

LoopFree ==
    \A j \in DOMAIN calls : calls[j].pc \in ActivePc => Suspended(calls[j].pc)

\* Any failed call ending the server.
ServerAfterFatal(c) == IF c.exc # NoExc THEN "stopped" ELSE server

\* The state of the server once call record c has been updated: an exception
\* that leaves run_research leaves crew_research and ends the transport loop.
ServerAfter(c) == IF c.pc = "raised" THEN "stopped" ELSE server

\* ------------------------------------------------------------- actions
\* The host sends a crew_research request.
Request(q) ==
    /\ server = "running"
    /\ Len(calls) < MaxCalls
    /\ calls' = Append(calls, NewCall(q))
    /\ UNCHANGED <<server, nextId, searchLog, stageLog>>

\* The event loop starts the coroutine of a pending request.
Dispatch(i) ==
    /\ server = "running"
    /\ calls[i].pc = "pending"
    /\ LoopFree
    /\ calls' = [calls EXCEPT ![i].pc = "build"]
    /\ UNCHANGED <<server, nextId, searchLog, stageLog>>

\* crew = create_research_crew(query)
Build(i, e) ==
    /\ server = "running"
    /\ calls[i].pc = "build"
    /\ LET c == calls[i]
           crew == create_research_crew(c.query, nextId)
           d == IF e = NoExc
                THEN [c EXCEPT !.crew = crew, !.objects = ObjectIds(crew), !.idx = 1,
                               !.pc = PhaseOf(crew.tasks[1])]
                ELSE OnException(c, e)
       IN  /\ calls' = [calls EXCEPT ![i] = d]
           /\ server' = ServerAfter(d)
           /\ nextId' = IF e = NoExc THEN nextId + ObjectsPerCrew ELSE nextId
    /\ UNCHANGED <<searchLog, stageLog>>

\* crew.kickoff(): the current task invokes the tool, once, with the arguments
\* its tool_choice was given (the framework is taken to honour tool_choice).
ToolStep(i, env) ==
    /\ server = "running"
    /\ calls[i].pc = "tool"
    /\ LET c == calls[i]
           task == c.crew.tasks[c.idx]
           a == task.tool_choice.arguments
           r == LinkUpSearchTool_run(a.query, a.depth, a.output_type, env)
           d == IF r.returned
                THEN [c EXCEPT !.toolResult = r.value, !.pc = "llm"]
                ELSE OnException(c, r.exc)
       IN  /\ calls' = [calls EXCEPT ![i] = d]
           /\ server' = ServerAfter(d)
           /\ searchLog' = Append(searchLog, [call |-> i, env |-> env, run |-> r])
           /\ stageLog' = stageLog \o <<Event(i, task, "start")>>
                            \o (IF r.returned THEN <<>> ELSE <<Event(i, task, "failed")>>)
    /\ UNCHANGED nextId

\* crew.kickoff(): the agent of the current task asks the model for the task's output.
ModelStep(i, o) ==
    /\ server = "running"
    /\ calls[i].pc = "llm"
    /\ LET c == calls[i]
           task == c.crew.tasks[c.idx]
           n == NextTaskIndex(c.idx)
           d == IF o.exc # NoExc
                THEN OnException(c, o.exc)
                ELSE IF n \in DOMAIN c.crew.tasks
                THEN [c EXCEPT !.outputs = Append(@, o.text), !.idx = n,
                               !.pc = PhaseOf(c.crew.tasks[n])]
                ELSE [c EXCEPT !.outputs = Append(@, o.text), !.pc = "extract"]
       IN  /\ o \in ModelOutcomes(AgentInput(c, task))
           /\ calls' = [calls EXCEPT ![i] = d]
           /\ server' = ServerAfter(d)
           /\ stageLog' = stageLog
                            \o (IF PhaseOf(task) = "tool" THEN <<>>
                                ELSE <<Event(i, task, "start")>>)
                            \o <<Event(i, task, IF o.exc # NoExc THEN "failed" ELSE "end")>>
    /\ UNCHANGED <<nextId, searchLog>>

\* return result.raw
Return(i) ==
    /\ server = "running"
    /\ calls[i].pc = "extract"
    /\ calls' = [calls EXCEPT ![i] = [Release(@) EXCEPT !.pc = "done",
                                                        !.result = CrewOutputRaw(calls[i])]]
    /\ UNCHANGED <<server, nextId, searchLog, stageLog>>

AllModelOutcomes ==
    UNION {ModelOutcomes(t) :
             t \in {""} \cup GeneratedTexts
                    \cup {StrResult(SearchToolChoice(q).arguments) : q \in Queries}
                    \cup {SearchErrorPrefix \o StrExc(e) : e \in CtorRaisable \cup Raisable}}

Next ==
    \/ \E q \in Queries : Request(q)
    \/ \E i \in DOMAIN calls : Dispatch(i)
    \/ \E i \in DOMAIN calls : \E e \in {NoExc} \cup BuildRaisable : Build(i, e)
    \/ \E i \in DOMAIN calls : \E env \in ToolOutcomes : ToolStep(i, env)
    \/ \E i \in DOMAIN calls : \E o \in AllModelOutcomes : ModelStep(i, o)
    \/ \E i \in DOMAIN calls : Return(i)

Spec == Init /\ [][Next]_vars

\* ------------------------------------------------------------- the tool alone
\* A caller invokes LinkUpSearchTool._run directly with arguments of its choice.
InvokeTool(q, depth, output_type, env) ==
    /\ Len(searchLog) < MaxDirect
    /\ searchLog' = Append(searchLog,
                           [call |-> 0, env |-> env,
                            run |-> LinkUpSearchTool_run(q, depth, output_type, env)])
    /\ UNCHANGED <<server, calls, nextId, stageLog>>

NextTool ==
    \E q \in Queries, depth \in Depths, output_type \in OutputTypes, env \in ToolOutcomes :
        InvokeTool(q, depth, output_type, env)

SpecTool == Init /\ [][NextTool]_vars

\* ------------------------------------------------------------- observations
\* The events of call i, in the order they happened.
TraceOf(i) ==
    LET own == SelectSeq(stageLog, LAMBDA e : e.call = i)
    IN  [k \in DOMAIN own |-> [task |-> own[k].task, ev |-> own[k].ev]]

StageOrder == <<"search", "analysis", "writing">>

\* The first n stages, each started and ended, in order.
CompleteStages(n) ==
    [k \in 1..(2 * n) |->
        [task |-> StageOrder[(k + 1) \div 2], ev |-> IF k % 2 = 1 THEN "start" ELSE "end"]]

\* A trace is in order when it is some number of completed stages, in the
\* fixed order, followed at most by the next stage started, or started and failed.
InOrder(tr) ==
    /\ Len(tr) <= 2 * Len(StageOrder)
    /\ \A k \in DOMAIN tr :
           /\ tr[k].task = StageOrder[(k + 1) \div 2]
           /\ IF k % 2 = 1
              THEN tr[k].ev = "start"
              ELSE tr[k].ev = "end" \/ (tr[k].ev = "failed" /\ k = Len(tr))

Ended(i) == calls[i].pc \in {"done", "raised"}

SearchesOf(i) == {k \in DOMAIN searchLog : searchLog[k].call = i}

\* ------------------------------------------------------------- claims

\* C2: within one invocation the stages run in the one order SEARCH, ANALYZE,
\* WRITE: a stage starts only after the one before it has ended, no two stages
\* of the invocation overlap, and no stage is repeated, revisited or skipped.
C2_FixedStageOrder == \A i \in DOMAIN calls : LET tr == TraceOf(i) IN InOrder(tr)

C2_Witness == \E i \in DOMAIN calls : TraceOf(i) = CompleteStages(3)

C7_FreshPipelinePerCall ==
    /\ \A i, j \in DOMAIN calls : i # j => calls[i].objects \cap calls[j].objects = {}
    /\ \A i \in DOMAIN calls :
        LET crew == calls[i].crew
            agentIds == {crew.agents[k].id : k \in DOMAIN crew.agents}
            taskIds == {crew.tasks[k].id : k \in DOMAIN crew.tasks}
        IN  crew.id # 0 =>
                /\ ObjectIds(crew) = calls[i].objects
                /\ Cardinality(calls[i].objects) = ObjectsPerCrew
                /\ \A k \in DOMAIN crew.agents :
                       /\ crew.agents[k].llm = crew.client.id
                       /\ crew.agents[k].tools \subseteq {crew.tool.id}
                /\ \A k \in DOMAIN crew.tasks :
                       /\ crew.tasks[k].agent \in agentIds
                       /\ \A m \in DOMAIN crew.tasks[k].context :
                              crew.tasks[k].context[m] \in taskIds
                       /\ crew.tasks[k].tool_choice.name # "" =>
                              crew.tasks[k].tool_choice.arguments.query = calls[i].query

C7_Witness ==
    \E i, j \in DOMAIN calls :
        /\ i # j
        /\ calls[i].query # calls[j].query
        /\ calls[i].objects # {}
        /\ calls[j].crew.id # 0

\* C8: a call that ends with an error string leaves the server running: the
\* server stops only when an exception left a call; a request waiting while no
\* call is in flight can be started; a call runs its search at most once, each
\* search reaches the provider at most once, and the stages of every call are
\* a fresh SEARCH, ANALYZE, WRITE sequence.
C8_FailureNotFatal ==
    /\ server = "stopped" => \E i \in DOMAIN calls : calls[i].pc = "raised"
    /\ \A j \in DOMAIN calls :
           (/\ calls[j].pc = "pending"
            /\ \A i \in DOMAIN calls : calls[i].pc \in {"pending", "done"})
               => ENABLED Dispatch(j)
    /\ \A i \in DOMAIN calls :
           /\ Cardinality(SearchesOf(i)) <= 1
           /\ \A k \in SearchesOf(i) : Len(searchLog[k].run.sent) <= 1
           /\ LET tr == TraceOf(i) IN InOrder(tr)
           /\ calls[i].pc = "pending" =>
                  /\ \A m \in DOMAIN stageLog : stageLog[m].call # i
                  /\ calls[i].result = ""

C8_Witness ==
    \E i, j \in DOMAIN calls :
        /\ i < j
        /\ calls[i].pc = "done"
        /\ calls[i].exc # NoExc
        /\ calls[j].pc = "done"
        /\ calls[j].exc = NoExc
        /\ TraceOf(j) = CompleteStages(3)

\* C10: at most one call is in flight at any time: a request that arrives
\* while a call is in flight waits until that call has ended, and the stage
\* events of two calls never interleave.
C10_OneCallAtATime ==
    /\ Cardinality({i \in DOMAIN calls : calls[i].pc \in ActivePc}) <= 1
    /\ \A i, j \in DOMAIN calls :
           (i # j /\ calls[i].pc \in ActivePc) => (calls[j].pc = "pending" \/ Ended(j))
    /\ \A b \in DOMAIN stageLog :
           (b > 1 /\ stageLog[b - 1].call # stageLog[b].call)
               => \A a \in 1..(b - 1) : stageLog[a].call # stageLog[b].call

C10_Witness ==
    \E i, j \in DOMAIN calls :
        /\ calls[i].pc = "llm"
        /\ calls[i].idx = 2
        /\ calls[j].pc = "pending"

\* C1 as stated: whatever is raised inside run_research, the call ends by
\* returning a string, so no call ever ends with an exception leaving it.
C1_AsStated == \A i \in DOMAIN calls : calls[i].pc # "raised"

\* C1, amended: whatever exception deriving from Exception reaches
\* run_research, the call ends by returning a (non-empty) string; only an
\* exception outside the Exception hierarchy leaves the call.
C1_ReturnsStringOnException ==
    \A i \in DOMAIN calls :
        /\ calls[i].exc.cls \in ExceptionClasses =>
               calls[i].pc = "done" /\ Len(calls[i].result) > 0
        /\ calls[i].pc = "raised" => calls[i].exc.cls \in BaseOnlyClasses
        /\ calls[i].pc = "done" => Len(calls[i].result) > 0

C1_Witness ==
    \E i \in DOMAIN calls :
        /\ calls[i].pc = "done"
        /\ calls[i].exc.cls \in ExceptionClasses
        /\ TraceOf(i) # <<>>

\* C3 as stated: when the provider call of a search raised, the string the
\* call returns is an error string: it starts with "Error during LinkUp
\* search:", or at the least (the spec's own wording) contains "Error during".
C3_AsStated ==
    \A k \in DOMAIN searchLog :
        LET e == searchLog[k]
        IN  (e.call # 0 /\ e.run.exc # NoExc /\ calls[e.call].pc = "done")
                => \/ StartsWith(calls[e.call].result, "Error during LinkUp search:")
                   \/ Contains(calls[e.call].result, "Error during")

\* C3, amended: when the provider call raises an exception deriving from
\* Exception, the string _run hands back to the search task starts with
\* "Error during LinkUp search:" (so contains "Error during"), and the call
\* is not ended by it: it goes on to ask the model with that string as the
\* search result, and what it returns is decided by the later stages.
C3_SearchErrorIsToolResult ==
    \A k \in DOMAIN searchLog :
        LET e == searchLog[k]
        IN  e.run.exc.cls \in ExceptionClasses =>
                /\ e.run.returned
                /\ StartsWith(e.run.value, "Error during LinkUp search:")
                /\ Contains(e.run.value, "Error during")
                /\ (e.call # 0 /\ TraceOf(e.call) = <<[task |-> "search", ev |-> "start"]>>)
                       => /\ calls[e.call].pc = "llm"
                          /\ calls[e.call].toolResult = e.run.value

\* A search failed and the call returned a text without "Error during" in it.
C3_Witness ==
    \E k \in DOMAIN searchLog :
        LET e == searchLog[k]
        IN  /\ e.call # 0
            /\ e.run.exc.cls \in ExceptionClasses
            /\ calls[e.call].pc = "done"
            /\ calls[e.call].exc = NoExc
            /\ ~Contains(calls[e.call].result, "Error during")

\* C4 as stated: any exception raised while the pipeline is built or run makes
\* run_research return "Error during crew execution: " and its message.
C4_AsStated ==
    \A i \in DOMAIN calls :
        calls[i].exc # NoExc =>
            /\ calls[i].pc = "done"
            /\ calls[i].result = "Error during crew execution: " \o calls[i].exc.msg

\* The steps in which run_research returns result.raw hand back the output
\* of the writing task.
C4_ReturnStep ==
    \A i \in DOMAIN calls :
        (i \in DOMAIN calls' /\ calls[i].pc = "extract" /\ calls'[i].pc = "done") =>
            /\ Len(calls[i].outputs) = 3
            /\ \E k \in DOMAIN calls[i].crew.tasks :
                   /\ calls[i].crew.tasks[k].name = "writing"
                   /\ calls'[i].result = calls[i].outputs[k]

\* C4, amended: an exception deriving from Exception that reaches
\* run_research makes it return exactly "Error during crew execution: "
\* followed by the message; a call in which no exception reached run_research
\* returns the raw output of the writing task, after all three stages ended.
C4_ErrorStringOrFinalOutput ==
    /\ [](\A i \in DOMAIN calls :
            /\ calls[i].exc.cls \in ExceptionClasses =>
                   /\ calls[i].pc = "done"
                   /\ calls[i].result = "Error during crew execution: " \o calls[i].exc.msg
            /\ (calls[i].pc = "done" /\ calls[i].exc = NoExc) =>
                   TraceOf(i) = CompleteStages(3))
    /\ [][C4_ReturnStep]_vars

\* A call returned a final text that differs from what its search stage was given.
C4_Witness ==
    \E k \in DOMAIN searchLog :
        LET e == searchLog[k]
        IN  /\ e.call # 0
            /\ e.run.returned
            /\ calls[e.call].pc = "done"
            /\ calls[e.call].exc = NoExc
            /\ calls[e.call].result # e.run.value

\* C5 as stated: _run never raises, sends exactly one request to the provider
\* with the arguments it was given, and returns the text of the response or
\* "Error during LinkUp search: " and the message.
C5_AsStated ==
    \A k \in DOMAIN searchLog :
        LET r == searchLog[k].run
        IN  /\ r.returned
            /\ r.sent = <<r.args>>
            /\ r.value \in {StrResult(r.args), "Error during LinkUp search: " \o r.exc.msg}

\* C5, amended: _run lets no exception deriving from Exception escape; it
\* sends at most one request to the provider, exactly one unless building the
\* client raised, with query, depth and output_type as given (also outside the
\* documented sets); it returns the text of the response when nothing raised
\* and "Error during LinkUp search: " followed by the message otherwise.
C5_ToolNeverRaisesException ==
    \A k \in DOMAIN searchLog :
        LET r == searchLog[k].run
            env == searchLog[k].env
        IN  /\ Len(r.sent) <= 1
            /\ env.ctor = NoExc => r.sent = <<r.args>>
            /\ env.ctor # NoExc => r.sent = <<>>
            /\ r.exc = NoExc => r.returned /\ r.value = StrResult(r.args)
            /\ r.exc.cls \in ExceptionClasses =>
                   r.returned /\ r.value = "Error during LinkUp search: " \o r.exc.msg
            /\ ~r.returned => r.exc.cls \in BaseOnlyClasses

\* The tool was invoked with values outside the documented sets and these
\* reached the provider; another invocation failed and returned its error string.
C5_Witness ==
    /\ \E k \in DOMAIN searchLog :
           LET r == searchLog[k].run
           IN  /\ r.args.depth = "bogus"
               /\ r.args.output_type = "bogus"
               /\ r.sent = <<r.args>>
               /\ r.returned
    /\ \E k \in DOMAIN searchLog :
           /\ searchLog[k].run.exc.cls \in ExceptionClasses
           /\ searchLog[k].run.returned

\* C9 as stated: once a stage has failed, no later stage of the call runs and
\* what the call returns is an error string; the failure of the search stage
\* includes the search adapter returning its error string.
C9_AsStated ==
    /\ \A k \in DOMAIN searchLog :
           LET e == searchLog[k]
           IN  (e.call # 0 /\ e.run.exc # NoExc) =>
                   \A m \in DOMAIN stageLog :
                       stageLog[m].call = e.call => stageLog[m].task = "search"
    /\ \A m \in DOMAIN stageLog :
           stageLog[m].ev = "failed" =>
               /\ \A n \in DOMAIN stageLog : n > m => stageLog[n].call # stageLog[m].call
               /\ calls[stageLog[m].call].pc = "done" =>
                      StartsWith(calls[stageLog[m].call].result, "Error during")

\* C9, amended: a stage that raises an exception ends the call: no later
\* event of the call follows, and the call returns the "Error during crew
\* execution" string when the exception derives from Exception and lets it
\* escape otherwise.  A call ends in one of three ways: all three stages ended
\* and the writing output returned, that error string returned, or an
\* exception outside the Exception hierarchy escaped.  A failed search
\* adapter call is none of these: the later stages still run.
C9_RaisingStageIsTerminal ==
    /\ \A m \in DOMAIN stageLog :
           stageLog[m].ev = "failed" =>
               LET i == stageLog[m].call
               IN  /\ \A n \in DOMAIN stageLog : n > m => stageLog[n].call # i
                   /\ Ended(i)
                   /\ calls[i].exc # NoExc
    /\ \A i \in DOMAIN calls :
           /\ calls[i].pc = "done" =>
                  \/ calls[i].exc = NoExc /\ TraceOf(i) = CompleteStages(3)
                  \/ /\ calls[i].exc.cls \in ExceptionClasses
                     /\ calls[i].result = "Error during crew execution: " \o calls[i].exc.msg
           /\ calls[i].pc = "raised" => calls[i].exc.cls \in BaseOnlyClasses
           /\ (Ended(i) /\ calls[i].exc # NoExc) =>
                  \/ TraceOf(i) = <<>>
                  \/ TraceOf(i)[Len(TraceOf(i))].ev = "failed"

\* The search adapter failed and all three stages of the call still ended.
C9_Witness ==
    \E k \in DOMAIN searchLog :
        LET e == searchLog[k]
        IN  /\ e.call # 0
            /\ e.run.exc.cls \in ExceptionClasses
            /\ TraceOf(e.call) = CompleteStages(3)
            /\ \E i \in DOMAIN calls :
                   /\ calls[i].pc = "done"
                   /\ calls[i].exc # NoExc
                   /\ Len(TraceOf(i)) > 1

====
